---- MODULE Spec2Model ----
(***************************************************************************)
(* The Dropbox file processing worker (worker/main.py): the queue consumer *)
(* loop of DropboxFileWorker.run, the per-file pipeline of                 *)
(* DropboxFileWorker.process_dropbox_file, and the two MongoDB collections *)
(* (dropbox_files, dropbox_chunks) and the Service Bus queue they act on.  *)
(*                                                                         *)
(* Every await of the pipeline that touches the database, the blob store,  *)
(* the embedding service or the queue is one action, so the states other   *)
(* readers of the database can observe between two writes are states of    *)
(* the model.  External services answer nondeterministically: a database   *)
(* call, a settle call on the queue, a download, a conversion, an upload   *)
(* or an embedding request may fail.                                       *)
(***************************************************************************)
EXTENDS Integers, Sequences, FiniteSets, TLC

(***************************************************************************)
(* Program constants (WorkerConfig.__init__).                              *)
(***************************************************************************)
MAX_RECEIVE_COUNT == 3
MAX_RETRIES == 3
RETRY_DELAY_BASE == 2

(***************************************************************************)
(* Bounds of the model.                                                    *)
(***************************************************************************)
\* longest list of pieces the text splitter returns for one document
MaxPieces == 2
\* faults of the services over a whole run: database calls that raise, settle calls
\* (complete / abandon / dead-letter) that raise a transport error, and message locks
\* that expire while the receiving consumer still works on the message
MaxFaults == 1

\* deliveries of one message the model follows; never reached by the worker as written
MaxDeliveries == MAX_RECEIVE_COUNT + MaxFaults + 1

Workers == {"w1"}
MsgIds == {"m1", "m2"}
\* ObjectIds named by messages: RecordIds have a FileRecord, "f0" has none
RecordIds == {"f1"}
FileIds == RecordIds \cup {"f0"}

NoMsg == [id |-> "none", delivery_count |-> 0]
NoError == "none"

\* a message body: valid JSON with the four required fields, JSON that lacks one
\* (blob_url, filename or file_type; or file_id, and then it names no FileRecord),
\* or not JSON at all
BodyKinds == {"valid", "missing_field", "bad_json"}

VARIABLES
    dropbox_files,    \* collection dropbox_files: file id -> FileRecord
    dropbox_chunks,   \* collection dropbox_chunks: a bag of ChunkRecords (doc -> copies)
    queue,            \* the Service Bus queue: message id -> message and its delivery state
    running,          \* DropboxFileWorker.running
    pc,               \* where each consumer is in run / process_dropbox_file
    msg,              \* the ServiceBusReceivedMessage a consumer holds
    chunks,           \* local `chunks` / `chunks_with_embeddings` of process_dropbox_file
    err,              \* str(e) of the exception process_dropbox_file caught
    success,          \* return value of process_dropbox_file
    call,             \* the settle call run made for the held message, and whether it raised
    embed_raised,     \* whether embeddings.create raised in this delivery
    chunk_raised,     \* whether chunk_markdown met an exception in this delivery
    slept,            \* seconds the run loop slept in the error handler it last ran
    returned_at,      \* which return statement ended process_dropbox_file
    markdown_content, \* local `markdown_content`: what convert_to_markdown returned
    temp_file,        \* whether the scratch file of the delivery (temp_path) exists
    attempt,          \* loop variable of download_file_with_retry
    delays,           \* the delays download_file_with_retry has slept in this call
    max_retries,      \* WorkerConfig.max_retries
    retry_delay_base, \* WorkerConfig.retry_delay_base
    sync,             \* the frame of each manual_sync call: request, listing, counters
    blob_store,       \* the blob container: names of the raw blobs uploaded by sync
    faults,           \* faults of the services so far
    history,          \* per message: what has happened to it (for the claims)
    completions       \* per file: its successful processings (for the claims)

vars == <<dropbox_files, dropbox_chunks, queue, running, pc, msg, chunks, err, success,
          call, embed_raised, chunk_raised, slept, returned_at, markdown_content, temp_file, attempt,
          delays, max_retries, retry_delay_base, sync, blob_store, faults, history,
          completions>>

dbVars == <<dropbox_files, dropbox_chunks>>
localVars == <<chunks, err, success, embed_raised, chunk_raised, returned_at>>
retryVars == <<attempt, delays>>
configVars == <<max_retries, retry_delay_base>>
syncVars == <<sync, blob_store>>

----------------------------------------------------------------------------
(***************************************************************************)
(* Data.                                                                   *)
(***************************************************************************)
Statuses == {"pending", "processing", "completed", "failed"}

\* ids of files in Dropbox, and the contents a download can return
DropboxIds == {"d1", "d2"}
Contents == {"c1", "c2"}

\* FileMetadata.content_hash as Dropbox computes it from the bytes of a file
dropbox_content_hash(content) == IF content = "c1" THEN "x1" ELSE "x2"

\* hashlib.sha256(file_content).hexdigest(): equal for equal bytes, different otherwise
sha256(content) == <<"sha256", content>>

\* blob_name = f"dropbox/{sha256_hash}/{file_metadata['name']}"; a file's name is taken
\* to be its Dropbox id
blob_name(sha256_hash, name) == <<"dropbox", sha256_hash, name>>

\* a FileRecord as sync writes it (ProcessingMetadata defaults: attempts 0, last_error
\* None); dropbox_modified_at and content_hash are "None" when the field is missing
PendingRecord ==
    [processing_status |-> "pending", chunk_count |-> 0, markdown_blob_url |-> FALSE,
     attempts |-> 0, last_error |-> NoError,
     dropbox_file_id |-> "d1", dropbox_modified_at |-> "t1", content_hash |-> "x1",
     file_hash |-> sha256("c1"), blob_url |-> blob_name(sha256("c1"), "d1"),
     created_at |-> "earlier"]

\* the documents insert_many can write
ChunkDocs == [file_id : FileIds, chunk_index : 0..(MaxPieces - 1), embedding : BOOLEAN]

RECURSIVE SumOver(_, _)
SumOver(f, S) ==
    IF S = {} THEN 0
    ELSE LET x == CHOOSE y \in S : TRUE IN f[x] + SumOver(f, S \ {x})

\* the ChunkRecords of one file: db.dropbox_chunks.find({file_id: f})
ChunksOfFile(f) == {d \in ChunkDocs : d.file_id = f /\ dropbox_chunks[d] > 0}
\* db.dropbox_chunks.count_documents({file_id: f})
CountChunks(f) == SumOver(dropbox_chunks, {d \in ChunkDocs : d.file_id = f})
\* copies of chunk index i stored for file f
CountIndex(f, i) ==
    SumOver(dropbox_chunks, {d \in ChunkDocs : d.file_id = f /\ d.chunk_index = i})

RECURSIVE SeqsUpTo(_, _)
SeqsUpTo(S, n) ==
    IF n = 0 THEN {<<>>}
    ELSE LET shorter == SeqsUpTo(S, n - 1)
         IN shorter \cup {Append(s, x) : s \in {t \in shorter : Len(t) = n - 1}, x \in S}

\* what RecursiveCharacterTextSplitter.split_text can return: a list of pieces, each
\* either text (TRUE) or empty once stripped (FALSE)
SplitterOutputs == SeqsUpTo(BOOLEAN, MaxPieces)

----------------------------------------------------------------------------
(***************************************************************************)
(* Pure functions of the pipeline.                                         *)
(***************************************************************************)

\* DoclingProcessor.chunk_markdown: enumerate the pieces, skip the empty ones, and give
\* each kept piece the index enumerate() gave it
RECURSIVE chunk_markdown_from(_, _)
chunk_markdown_from(pieces, idx) ==
    IF idx > Len(pieces) THEN <<>>
    ELSE IF ~pieces[idx] THEN chunk_markdown_from(pieces, idx + 1)
    ELSE <<[chunk_index |-> idx - 1, embedding |-> FALSE]>>
             \o chunk_markdown_from(pieces, idx + 1)

chunk_markdown(pieces) == chunk_markdown_from(pieces, 1)

\* DoclingProcessor.generate_embeddings: response.data[idx] goes to chunks[idx] for
\* idx < len(chunks); n_data is len(response.data)
generate_embeddings(cs, n_data) ==
    [i \in 1..Len(cs) |-> IF i <= n_data THEN [cs[i] EXCEPT !.embedding = TRUE] ELSE cs[i]]

\* the loop that builds document_chunks: chunks without "embedding" are skipped
RECURSIVE document_chunks_from(_, _, _)
document_chunks_from(file_id, cs, i) ==
    IF i > Len(cs) THEN <<>>
    ELSE IF ~cs[i].embedding THEN document_chunks_from(file_id, cs, i + 1)
    ELSE <<[file_id |-> file_id, chunk_index |-> cs[i].chunk_index,
            embedding |-> cs[i].embedding]>>
             \o document_chunks_from(file_id, cs, i + 1)

\* document_chunks without the `if "embedding" in chunk` test: every chunk is kept
document_chunks_unfiltered(file_id, cs) ==
    [i \in 1..Len(cs) |-> [file_id |-> file_id, chunk_index |-> cs[i].chunk_index,
                           embedding |-> cs[i].embedding]]

document_chunks(file_id, cs) == document_chunks_from(file_id, cs, 1)

\* insert_many: every document of the batch is added to the collection
insert_many(coll, docs) ==
    [d \in ChunkDocs |-> coll[d] + Cardinality({i \in 1..Len(docs) : docs[i] = d})]

\* the status update left out: the pipeline starts on a FileRecord as it was
mark_processing_skipped(record) == record

\* the $set of the first update: processing_status processing
mark_processing(record) == [record EXCEPT !.processing_status = "processing"]

\* mark_completed that leaves chunk_count as it was
mark_completed_without_count(record, n) ==
    [record EXCEPT !.processing_status = "completed", !.markdown_blob_url = TRUE]

\* the $set of the completion updates: processing_status completed, markdown_blob_url,
\* chunk_count n
mark_completed(record, n) ==
    [record EXCEPT !.processing_status = "completed", !.markdown_blob_url = TRUE,
                   !.chunk_count = n]

\* `if not chunks:` never taken: an empty list goes on to the embedding step
no_chunks_never(cs) == FALSE

\* `if not chunks:` the zero-chunk test
no_chunks(cs) == cs = <<>>

\* mark_failed that writes the status and leaves last_error as it was
mark_failed_without_error(record, e) ==
    [record EXCEPT !.processing_status = "failed"]

\* mark_failed that takes the failure for a success and writes completed
mark_failed_as_completed(record, e) ==
    [record EXCEPT !.processing_status = "completed"]

\* the $set of the failure handler: processing_status failed, last_error str(e)
mark_failed(record, e) ==
    [record EXCEPT !.processing_status = "failed", !.last_error = e]

\* settle_call with the ceiling compared by > : one delivery too many
settle_call_off_by_one(ok, delivery_count) ==
    IF ok THEN "complete_message"
    ELSE IF delivery_count > MAX_RECEIVE_COUNT THEN "dead_letter_message"
    ELSE "abandon_message"

\* settle_call with the two failure branches exchanged
settle_call_swapped(ok, delivery_count) ==
    IF ok THEN "complete_message"
    ELSE IF delivery_count >= MAX_RECEIVE_COUNT THEN "abandon_message"
    ELSE "dead_letter_message"

\* settle_call that ignores the result of process_dropbox_file
settle_call_ignoring_result(ok, delivery_count) == "complete_message"

\* settle_call that never dead-letters
settle_call_always_abandon(ok, delivery_count) ==
    IF ok THEN "complete_message" ELSE "abandon_message"

\* run: which settle call follows the return value of process_dropbox_file
settle_call(ok, delivery_count) ==
    IF ok THEN "complete_message"
    ELSE IF delivery_count >= MAX_RECEIVE_COUNT THEN "dead_letter_message"
    ELSE "abandon_message"

----------------------------------------------------------------------------
(***************************************************************************)
(* Initial states: the consumers are constructed and not yet running; the  *)
(* files that have a FileRecord are pending, as sync leaves them; no chunk *)
(* is stored; the queue holds one message with any body and, possibly,     *)
(* a second one that cannot be parsed.                                     *)
(***************************************************************************)
\* the manual_sync calls the model follows
Syncs == {"s1", "s2"}

\* no call of manual_sync has been made.  The frame of a call: the request's
\* force_reprocess, the listing `files` and the loop's position idx in it, the two
\* counters, the bytes downloaded for the current file, the response once returned;
\* and, for the record, the Dropbox ids the store knew when the call arrived and a log
\* with one entry for every file the loop has finished with
NoSync ==
    [pc |-> "idle", force_reprocess |-> FALSE, files |-> <<>>, idx |-> 0,
     files_queued |-> 0, files_skipped |-> 0, file_content |-> "none",
     response |-> "none", known |-> {}, log |-> <<>>]

Bodies ==
    {[kind |-> "valid", file_id |-> f] : f \in FileIds}
        \cup {[kind |-> "missing_field", file_id |-> f] : f \in FileIds}
        \cup {[kind |-> "bad_json", file_id |-> "f0"]}

\* the body of the second message, when there is one
PoisonBody == [kind |-> "bad_json", file_id |-> "f0"]

\* succeeded: process_dropbox_file returned True for a delivery of the message;
\* unclean: its lock expired under a working consumer, or a dead_letter_message call
\* for it raised
NoHistory == [succeeded |-> FALSE, unclean |-> FALSE]

NoCall == [name |-> "none", raised |-> FALSE]

\* n: successful processings of the file so far (counted up to 2); docs: the batch of
\* the first one; exact: after the first one the stored chunks of the file were that
\* batch and nothing else; same: every later one built the same batch as the first
NoCompletion == [n |-> 0, docs |-> <<>>, exact |-> TRUE, same |-> TRUE]

Init ==
    /\ dropbox_files = [f \in RecordIds |-> PendingRecord]
    /\ dropbox_chunks = [d \in ChunkDocs |-> 0]
    /\ \E b \in Bodies, s \in {"absent", "active"} :
          queue = [m \in MsgIds |->
                      IF m = "m1" THEN [state |-> "active", body |-> b, delivery_count |-> 0]
                      ELSE [state |-> s, body |-> PoisonBody, delivery_count |-> 0]]
    /\ running = [w \in Workers |-> FALSE]
    /\ pc = [w \in Workers |-> "start"]
    /\ msg = [w \in Workers |-> NoMsg]
    /\ chunks = [w \in Workers |-> <<>>]
    /\ err = [w \in Workers |-> NoError]
    /\ success = [w \in Workers |-> FALSE]
    /\ call = [w \in Workers |-> NoCall]
    /\ embed_raised = [w \in Workers |-> FALSE]
    /\ chunk_raised = [w \in Workers |-> FALSE]
    /\ slept = [w \in Workers |-> 0]
    /\ returned_at = [w \in Workers |-> "none"]
    /\ markdown_content = [w \in Workers |-> "unset"]
    /\ temp_file = [w \in Workers |-> FALSE]
    /\ attempt = [w \in Workers |-> 0]
    /\ delays = [w \in Workers |-> <<>>]
    /\ max_retries = MAX_RETRIES
    /\ retry_delay_base = RETRY_DELAY_BASE
    /\ sync = [s \in Syncs |-> NoSync]
    /\ blob_store = {}
    /\ faults = 0
    /\ history = [m \in MsgIds |-> NoHistory]
    /\ completions = [f \in RecordIds |-> NoCompletion]

----------------------------------------------------------------------------
(***************************************************************************)
(* The queue (PEEK_LOCK receive mode).                                     *)
(***************************************************************************)

\* the consumer's lock on the message it holds is still the queue's current lock
HoldsLock(w) ==
    /\ msg[w] # NoMsg
    /\ queue[msg[w].id].state = "locked"
    /\ queue[msg[w].id].delivery_count = msg[w].delivery_count

\* the consumer is between receiving the message and settling it
Working(w) == pc[w] \notin {"start", "receive", "stopped"}

\* The lock of a delivered message runs out (the worker never renews it): the message
\* is visible again.  Under a consumer that still works on the message this is counted
\* against MaxFaults; after a settle call that raised it is how the message
\* comes back.
LockExpire(m) ==
    /\ queue[m].state = "locked"
    /\ LET held == \E w \in Workers : msg[w].id = m /\ HoldsLock(w) /\ Working(w)
       IN /\ held => faults < MaxFaults
          /\ faults' = IF held THEN faults + 1 ELSE faults
          /\ history' = [history EXCEPT ![m].unclean = @ \/ held]
    /\ queue' = [queue EXCEPT ![m].state = "active"]
    /\ UNCHANGED <<markdown_content, temp_file, retryVars, configVars, syncVars,
                   dbVars, running, pc, msg, localVars, call, slept, completions>>

----------------------------------------------------------------------------
(***************************************************************************)
(* DropboxFileWorker.run                                                   *)
(***************************************************************************)

\* run, up to the loop: the connections are made and running is set
Start(w) ==
    /\ pc[w] = "start"
    /\ running' = [running EXCEPT ![w] = TRUE]
    /\ pc' = [pc EXCEPT ![w] = "receive"]
    /\ UNCHANGED <<markdown_content, temp_file, retryVars, configVars, syncVars,
                   dbVars, queue, msg, localVars, call, slept, faults, history, completions>>

\* stop()
Stop(w) ==
    /\ running[w]
    /\ running' = [running EXCEPT ![w] = FALSE]
    /\ UNCHANGED <<markdown_content, temp_file, retryVars, configVars, syncVars,
                   dbVars, queue, pc, msg, localVars, call, slept, faults, history,
                   completions>>

\* `while self.running` is false: the loop ends and cleanup runs
Exit(w) ==
    /\ pc[w] = "receive"
    /\ ~running[w]
    /\ pc' = [pc EXCEPT ![w] = "stopped"]
    /\ UNCHANGED <<markdown_content, temp_file, retryVars, configVars, syncVars,
                   dbVars, queue, running, msg, localVars, call, slept, faults, history,
                   completions>>

\* `while self.running:` lets the loop body run, and the loop body starts with the
\* receive: the consumer is neither processing nor settling a message
can_receive_before_settle(w) == running[w] /\ pc[w] \in {"receive", "settle"}

\* the loop body without the test of self.running
can_receive_ignoring_stop(w) == pc[w] = "receive"

can_receive(w) == running[w] /\ pc[w] = "receive"

\* `except ServiceBusError` of the for loop: log, sleep(1), go on with the loop;
\* re-raising instead would end run
on_service_bus_error_fatal == [pc |-> "stopped", sleep |-> 0]

on_service_bus_error == [pc |-> "receive", sleep |-> 1]

\* `except Exception` of the while loop: log, sleep(5), go on with the loop
on_receive_error == [pc |-> "receive", sleep |-> 5]

\* receive_messages(max_message_count=1) returns a message: it is locked for this
\* consumer and its delivery count now counts this delivery
Receive(w, m) ==
    /\ can_receive(w)
    /\ queue[m].state = "active"
    /\ queue[m].delivery_count < MaxDeliveries
    /\ queue' = [queue EXCEPT ![m].state = "locked", ![m].delivery_count = @ + 1]
    /\ msg' = [msg EXCEPT ![w] = [id |-> m, delivery_count |-> queue[m].delivery_count + 1]]
    /\ pc' = [pc EXCEPT ![w] = "parse"]
    /\ chunks' = [chunks EXCEPT ![w] = <<>>]
    /\ err' = [err EXCEPT ![w] = NoError]
    /\ success' = [success EXCEPT ![w] = FALSE]
    /\ embed_raised' = [embed_raised EXCEPT ![w] = FALSE]
    /\ chunk_raised' = [chunk_raised EXCEPT ![w] = FALSE]
    /\ call' = [call EXCEPT ![w] = NoCall]
    /\ slept' = [slept EXCEPT ![w] = 0]
    /\ returned_at' = [returned_at EXCEPT ![w] = "none"]
    /\ markdown_content' = [markdown_content EXCEPT ![w] = "unset"]
    /\ UNCHANGED <<temp_file, retryVars, configVars, syncVars,
                   dbVars, running, faults, history, completions>>

\* receive_messages raises (a transport error): the handler of the loop body logs it and
\* sleeps, and the loop goes round
ReceiveError(w) ==
    /\ can_receive(w)
    /\ faults < MaxFaults
    /\ faults' = faults + 1
    /\ pc' = [pc EXCEPT ![w] = on_receive_error.pc]
    /\ slept' = [slept EXCEPT ![w] = on_receive_error.sleep]
    /\ UNCHANGED <<markdown_content, temp_file, retryVars, configVars, syncVars,
                   dbVars, queue, running, msg, localVars, call, history, completions>>

----------------------------------------------------------------------------
(***************************************************************************)
(* DropboxFileWorker.process_dropbox_file                                  *)
(***************************************************************************)
Body(w) == queue[msg[w].id].body

\* `return False` / `return True` of process_dropbox_file: run goes on to settle
Return(w, ok) ==
    /\ success' = [success EXCEPT ![w] = ok]
    /\ pc' = [pc EXCEPT ![w] = "settle"]
    /\ history' = [history EXCEPT ![msg[w].id].succeeded = @ \/ ok]

\* the finally clause of the inner try: os.unlink(temp_path), left out
scratch_kept(exists) == exists

\* the finally clause of the inner try: os.unlink(temp_path)
scratch_after_finally(exists) == FALSE

\* an exception inside the inner try: its finally clause runs and control goes to
\* `except Exception as e`
Raise(w, e) ==
    /\ err' = [err EXCEPT ![w] = e]
    /\ pc' = [pc EXCEPT ![w] = "mark_failed"]
    /\ temp_file' = [temp_file EXCEPT ![w] = scratch_after_finally(@)]
    /\ UNCHANGED <<success, history, returned_at>>

\* the bookkeeping of a successful processing of file f, for the claims
Completed(f, docs) ==
    completions' = [completions EXCEPT ![f] =
        IF @.n = 0
        THEN [n |-> 1, docs |-> docs, same |-> TRUE,
              exact |-> dropbox_chunks = insert_many([d \in ChunkDocs |-> 0], docs)]
        ELSE [@ EXCEPT !.n = 2, !.same = @ /\ docs = completions[f].docs]]

\* The message body is parsed and checked, then the FileRecord is set to processing and
\* the scratch file is created.
\* An unparsable body, a missing field, a FileRecord that is not found (matched_count 0)
\* and a database error each return False.
StartProcessing(w) ==
    /\ pc[w] = "parse"
    /\ LET f == Body(w).file_id
       IN \/ /\ Body(w).kind # "valid"
             /\ Return(w, FALSE)
             /\ returned_at' = [returned_at EXCEPT ![w] =
                    IF Body(w).kind = "bad_json" THEN "parse" ELSE "fields"]
             /\ UNCHANGED <<dropbox_files, faults, temp_file>>
          \/ /\ Body(w).kind = "valid"
             /\ f \notin DOMAIN dropbox_files
             /\ Return(w, FALSE)
             /\ returned_at' = [returned_at EXCEPT ![w] = "not_found"]
             /\ UNCHANGED <<dropbox_files, faults, temp_file>>
          \/ /\ Body(w).kind = "valid"
             /\ faults < MaxFaults
             /\ faults' = faults + 1
             /\ Return(w, FALSE)
             /\ returned_at' = [returned_at EXCEPT ![w] = "status_update"]
             /\ UNCHANGED <<dropbox_files, temp_file>>
          \/ /\ Body(w).kind = "valid"
             /\ f \in DOMAIN dropbox_files
             /\ dropbox_files' = [dropbox_files EXCEPT ![f] = mark_processing(@)]
             /\ temp_file' = [temp_file EXCEPT ![w] = TRUE]
             /\ pc' = [pc EXCEPT ![w] = "download"]
             /\ UNCHANGED <<success, history, faults, returned_at>>
    /\ UNCHANGED <<markdown_content, retryVars, configVars, syncVars,
                   dropbox_chunks, queue, running, msg, chunks, err, embed_raised, chunk_raised, call, slept,
                   completions>>

\* `for attempt in range(self.config.max_retries)`, with one attempt more
in_range_one_more(n, retries) == n <= retries

\* `for attempt in range(self.config.max_retries)`: the loop body runs for this value
in_range(n, retries) == n < retries

\* `if attempt < self.config.max_retries - 1`: a failed attempt is followed by a sleep
sleeps_before_retry(n, retries) == n < retries - 1

\* `retry_delay_base ** attempt`, taken as a product
retry_delay_linear(base, n) == base * n

\* `delay = self.config.retry_delay_base ** attempt` (x ** 0 is 1 for every x)
retry_delay(base, n) == IF n = 0 THEN 1 ELSE base ^ n

\* One round of the loop of download_file_with_retry.  While attempt is in range,
\* _download_file is tried: when it returns, the function returns True; when it raises,
\* the loop sleeps (except after the last attempt) and goes on.  When the range is
\* exhausted the function returns False and process_dropbox_file raises
\* "Failed to download file after retries".
Download(w) ==
    /\ pc[w] = "download"
    /\ IF ~in_range(attempt[w], max_retries)
       THEN /\ Raise(w, "download")
            /\ attempt' = [attempt EXCEPT ![w] = 0]
            /\ delays' = [delays EXCEPT ![w] = <<>>]
       ELSE \E downloaded \in BOOLEAN :
               IF downloaded
               THEN /\ pc' = [pc EXCEPT ![w] = "convert"]
                    /\ attempt' = [attempt EXCEPT ![w] = 0]
                    /\ delays' = [delays EXCEPT ![w] = <<>>]
                    /\ UNCHANGED <<err, success, history, returned_at, temp_file>>
               ELSE /\ attempt' = [attempt EXCEPT ![w] = @ + 1]
                    /\ delays' = [delays EXCEPT ![w] =
                           IF sleeps_before_retry(attempt[w], max_retries)
                           THEN Append(@, retry_delay(retry_delay_base, attempt[w]))
                           ELSE @]
                    /\ UNCHANGED <<pc, err, success, history, returned_at, temp_file>>
    /\ UNCHANGED <<dbVars, queue, running, msg, chunks, embed_raised, chunk_raised, call, slept, faults,
                   markdown_content, configVars, syncVars, completions>>

\* what the docling converter can do with a document: export markdown, export an empty
\* string, raise; or there is no converter (docling is not installed)
ConverterResults == {"markdown", "empty", "exception", "no_converter"}

\* DoclingProcessor.convert_to_markdown: the exported markdown, or None without a
\* converter or when the conversion raised
convert_to_markdown(result) ==
    IF result \in {"exception", "no_converter"} THEN "None" ELSE result

\* `if not markdown_content:` testing for None only
conversion_failed_only_none(md) == md = "None"

\* `if not markdown_content:` None and the empty string are failures
conversion_failed(md) == md \in {"None", "empty"}

\* convert_to_markdown is called once; a failed conversion raises
\* "Failed to convert to markdown"
Convert(w) ==
    /\ pc[w] = "convert"
    /\ \E result \in ConverterResults :
          LET md == convert_to_markdown(result)
          IN /\ markdown_content' = [markdown_content EXCEPT ![w] = md]
             /\ IF conversion_failed(md)
                THEN Raise(w, "convert")
                ELSE /\ pc' = [pc EXCEPT ![w] = "upload"]
                     /\ UNCHANGED <<err, success, history, returned_at, temp_file>>
    /\ UNCHANGED <<dbVars, queue, running, msg, chunks, embed_raised, chunk_raised, call, slept, faults,
                   retryVars, configVars, syncVars, completions>>

\* upload_markdown_to_blob returns the URL or None: None raises
UploadMarkdown(w) ==
    /\ pc[w] = "upload"
    /\ \E uploaded \in BOOLEAN :
          IF uploaded
          THEN /\ pc' = [pc EXCEPT ![w] = "chunk"]
               /\ UNCHANGED <<err, success, history, returned_at, temp_file>>
          ELSE Raise(w, "upload")
    /\ UNCHANGED <<markdown_content, retryVars, configVars, syncVars,
                   dbVars, queue, running, msg, chunks, embed_raised, chunk_raised, call, slept, faults,
                   completions>>

\* `except Exception as e` of chunk_markdown, letting the exception through
chunk_markdown_on_error_raising == [raises |-> TRUE, chunks |-> <<>>]

\* `except Exception as e` of chunk_markdown: the error is logged and [] is returned
chunk_markdown_on_error == [raises |-> FALSE, chunks |-> <<>>]

\* chunk_markdown, whose splitter, token count or loop may raise inside its try; with no
\* chunk the FileRecord is completed at once with chunk_count 0
ChunkMarkdown(w) ==
    /\ pc[w] = "chunk"
    /\ \E pieces \in SplitterOutputs, raised \in BOOLEAN :
          LET result == IF raised THEN chunk_markdown_on_error
                        ELSE [raises |-> FALSE, chunks |-> chunk_markdown(pieces)]
              cs == result.chunks
              f == Body(w).file_id
          IN /\ chunk_raised' = [chunk_raised EXCEPT ![w] = raised]
             /\ IF result.raises
                THEN /\ Raise(w, "chunk")
                     /\ UNCHANGED <<dropbox_files, chunks, completions, faults>>
                ELSE IF ~no_chunks(cs)
                THEN /\ chunks' = [chunks EXCEPT ![w] = cs]
                     /\ pc' = [pc EXCEPT ![w] = "embed"]
                     /\ UNCHANGED <<dropbox_files, err, success, history, faults,
                                    completions, returned_at, temp_file>>
                ELSE \/ /\ dropbox_files' =
                              [dropbox_files EXCEPT ![f] = mark_completed(@, 0)]
                        /\ Completed(f, <<>>)
                        /\ Return(w, TRUE)
                        /\ returned_at' = [returned_at EXCEPT ![w] = "no_chunks"]
                        /\ temp_file' =
                              [temp_file EXCEPT ![w] = scratch_after_finally(@)]
                        /\ UNCHANGED <<chunks, err, faults>>
                     \/ /\ faults < MaxFaults
                        /\ faults' = faults + 1
                        /\ Raise(w, "database")
                        /\ UNCHANGED <<dropbox_files, chunks, completions>>
    /\ UNCHANGED <<markdown_content, retryVars, configVars, syncVars,
                   dropbox_chunks, queue, running, msg, embed_raised, call, slept>>

\* generate_embeddings: the service raises (the chunks come back without embeddings) or
\* answers with n_data vectors
GenerateEmbeddings(w) ==
    /\ pc[w] = "embed"
    /\ \/ /\ embed_raised' = [embed_raised EXCEPT ![w] = TRUE]
          /\ UNCHANGED chunks
       \/ /\ \E n_data \in 0..MaxPieces :
                chunks' = [chunks EXCEPT ![w] = generate_embeddings(chunks[w], n_data)]
          /\ UNCHANGED embed_raised
    /\ pc' = [pc EXCEPT ![w] = "insert"]
    /\ UNCHANGED <<markdown_content, temp_file, retryVars, configVars, syncVars,
                   dbVars, queue, running, msg, err, success, call, slept, returned_at,
                   chunk_raised, faults, history, completions>>

\* document_chunks is built and, unless empty, inserted with insert_many
InsertChunks(w) ==
    /\ pc[w] = "insert"
    /\ LET docs == document_chunks(Body(w).file_id, chunks[w])
       IN \/ /\ dropbox_chunks' = IF docs # <<>> THEN insert_many(dropbox_chunks, docs)
                                  ELSE dropbox_chunks
             /\ pc' = [pc EXCEPT ![w] = "mark_completed"]
             /\ UNCHANGED <<err, success, history, faults, returned_at, temp_file>>
          \/ /\ docs # <<>>
             /\ faults < MaxFaults
             /\ faults' = faults + 1
             /\ Raise(w, "database")
             /\ UNCHANGED dropbox_chunks
    /\ UNCHANGED <<markdown_content, retryVars, configVars, syncVars,
                   dropbox_files, queue, running, msg, chunks, embed_raised, chunk_raised, call, slept,
                   completions>>

\* the FileRecord is updated to completed with chunk_count = len(document_chunks)
MarkCompleted(w) ==
    /\ pc[w] = "mark_completed"
    /\ LET f == Body(w).file_id
           docs == document_chunks(f, chunks[w])
       IN \/ /\ dropbox_files' = [dropbox_files EXCEPT ![f] = mark_completed(@, Len(docs))]
             /\ Completed(f, docs)
             /\ Return(w, TRUE)
             /\ returned_at' = [returned_at EXCEPT ![w] = "completed"]
             /\ temp_file' = [temp_file EXCEPT ![w] = scratch_after_finally(@)]
             /\ UNCHANGED <<err, faults>>
          \/ /\ faults < MaxFaults
             /\ faults' = faults + 1
             /\ Raise(w, "database")
             /\ UNCHANGED <<dropbox_files, completions>>
    /\ UNCHANGED <<markdown_content, retryVars, configVars, syncVars,
                   dropbox_chunks, queue, running, msg, chunks, embed_raised, chunk_raised, call, slept>>

\* except Exception as e: the FileRecord is set to failed with last_error = str(e); an
\* exception of that update is swallowed; process_dropbox_file returns False
MarkFailed(w) ==
    /\ pc[w] = "mark_failed"
    /\ LET f == Body(w).file_id
       IN \/ /\ dropbox_files' = [dropbox_files EXCEPT ![f] = mark_failed(@, err[w])]
             /\ UNCHANGED faults
          \/ /\ faults < MaxFaults
             /\ faults' = faults + 1
             /\ UNCHANGED dropbox_files
    /\ Return(w, FALSE)
    /\ returned_at' = [returned_at EXCEPT ![w] = "handler"]
    /\ UNCHANGED <<markdown_content, temp_file, retryVars, configVars, syncVars,
                   dropbox_chunks, queue, running, msg, chunks, err, embed_raised, chunk_raised, call, slept,
                   completions>>

----------------------------------------------------------------------------
(***************************************************************************)
(* run: the message is settled according to the result.                    *)
(***************************************************************************)

\* what a settle call that succeeds does to the message in the queue
settled_state(name) ==
    CASE name = "complete_message" -> "completed"
      [] name = "dead_letter_message" -> "dead_lettered"
      [] name = "abandon_message" -> "active"

\* complete_message / dead_letter_message / abandon_message.  The call raises a
\* ServiceBusError when the consumer's lock is lost or the transport fails; run logs it,
\* sleeps and goes on with the next receive, and the message stays as it is.
Settle(w) ==
    /\ pc[w] = "settle"
    /\ LET m == msg[w].id
           name == settle_call(success[w], msg[w].delivery_count)
       IN \/ /\ HoldsLock(w)
             /\ queue' = [queue EXCEPT ![m].state = settled_state(name)]
             /\ call' = [call EXCEPT ![w] = [name |-> name, raised |-> FALSE]]
             /\ pc' = [pc EXCEPT ![w] = "receive"]
             /\ UNCHANGED <<faults, history, slept>>
          \/ /\ ~HoldsLock(w)
             /\ call' = [call EXCEPT ![w] = [name |-> name, raised |-> TRUE]]
             /\ history' = [history EXCEPT ![m].unclean = @ \/ name = "dead_letter_message"]
             /\ pc' = [pc EXCEPT ![w] = on_service_bus_error.pc]
             /\ slept' = [slept EXCEPT ![w] = on_service_bus_error.sleep]
             /\ UNCHANGED <<queue, faults>>
          \/ /\ HoldsLock(w)
             /\ faults < MaxFaults
             /\ faults' = faults + 1
             /\ call' = [call EXCEPT ![w] = [name |-> name, raised |-> TRUE]]
             /\ history' = [history EXCEPT ![m].unclean = @ \/ name = "dead_letter_message"]
             /\ pc' = [pc EXCEPT ![w] = on_service_bus_error.pc]
             /\ slept' = [slept EXCEPT ![w] = on_service_bus_error.sleep]
             /\ UNCHANGED queue
    /\ chunks' = [chunks EXCEPT ![w] = <<>>]
    /\ err' = [err EXCEPT ![w] = NoError]
    /\ embed_raised' = [embed_raised EXCEPT ![w] = FALSE]
    /\ chunk_raised' = [chunk_raised EXCEPT ![w] = FALSE]
    /\ success' = [success EXCEPT ![w] = FALSE]
    /\ returned_at' = [returned_at EXCEPT ![w] = "none"]
    /\ markdown_content' = [markdown_content EXCEPT ![w] = "unset"]
    /\ UNCHANGED <<temp_file, retryVars, configVars, syncVars,
                   dbVars, running, msg, completions>>

----------------------------------------------------------------------------
Next ==
    \/ \E w \in Workers : Start(w)
    \/ \E w \in Workers : Stop(w)
    \/ \E w \in Workers : Exit(w)
    \/ \E w \in Workers, m \in MsgIds : Receive(w, m)
    \/ \E w \in Workers : ReceiveError(w)
    \/ \E w \in Workers : StartProcessing(w)
    \/ \E w \in Workers : Download(w)
    \/ \E w \in Workers : Convert(w)
    \/ \E w \in Workers : UploadMarkdown(w)
    \/ \E w \in Workers : ChunkMarkdown(w)
    \/ \E w \in Workers : GenerateEmbeddings(w)
    \/ \E w \in Workers : InsertChunks(w)
    \/ \E w \in Workers : MarkCompleted(w)
    \/ \E w \in Workers : MarkFailed(w)
    \/ \E w \in Workers : Settle(w)
    \/ \E m \in MsgIds : LockExpire(m)

Spec == Init /\ [][Next]_vars

----------------------------------------------------------------------------
(***************************************************************************)
(* The retry ceiling and the settlement of messages.                       *)
(***************************************************************************)
Settled(m) == queue[m].state \in {"completed", "dead_lettered"}

C2_SettleByResult ==
    [][\A w \in Workers :
          (pc[w] = "settle" /\ pc'[w] # "settle") =>
              LET name == call'[w].name
                  dc == msg[w].delivery_count
                  m == msg[w].id
              IN /\ name \in {"complete_message", "abandon_message", "dead_letter_message"}
                 /\ (name = "complete_message") <=> success[w]
                 /\ (name = "abandon_message") <=> (~success[w] /\ dc < MAX_RECEIVE_COUNT)
                 /\ (name = "dead_letter_message") <=>
                        (~success[w] /\ dc >= MAX_RECEIVE_COUNT)
                 /\ ~call'[w].raised =>
                        queue'[m].state =
                            (CASE name = "complete_message" -> "completed"
                               [] name = "abandon_message" -> "active"
                               [] name = "dead_letter_message" -> "dead_lettered")
                 /\ call'[w].raised => queue'[m] = queue[m]]_vars

\* run has abandoned a failed delivery below the ceiling
C2_Witness ==
    \E w \in Workers :
        /\ pc[w] = "receive"
        /\ call[w] = [name |-> "abandon_message", raised |-> FALSE]
        /\ msg[w].delivery_count = MAX_RECEIVE_COUNT - 1
        /\ queue[msg[w].id].state = "active"

----------------------------------------------------------------------------
(***************************************************************************)
(* The FileRecord and its ChunkRecords.                                    *)
(***************************************************************************)
IsCompleted(f) == dropbox_files[f].processing_status = "completed"

\* C3: a FileRecord whose processing_status is completed has chunk_count equal to the
\* number of ChunkRecords stored in dropbox_chunks for its file id.
C3_ChunkCountMatchesStored ==
    \A f \in RecordIds : IsCompleted(f) => dropbox_files[f].chunk_count = CountChunks(f)

\* the ChunkRecords stored for file f are the batch docs, each document once
StoredIs(f, docs) ==
    \A d \in ChunkDocs :
        d.file_id = f => dropbox_chunks[d] = Cardinality({i \in 1..Len(docs) : docs[i] = d})

\* C4: when the same message has been processed successfully twice, with the same
\* result of the pipeline both times, the FileRecord and the ChunkRecords of the file
\* are what they were after the first processing.
C4_IdempotentUnderDuplicateDelivery ==
    \A f \in RecordIds :
        LET c == completions[f]
        IN (c.n = 2 /\ c.same /\ c.exact /\ IsCompleted(f)) =>
               /\ StoredIs(f, c.docs)
               /\ dropbox_files[f].chunk_count = Len(c.docs)

\* C5: for a completed FileRecord the chunk_index values of its ChunkRecords are exactly
\* 0 .. chunk_count-1: each of these indices is stored once and no other index is stored.
C5_ChunkIndicesContiguous ==
    \A f \in RecordIds :
        IsCompleted(f) =>
            \A i \in 0..(MaxPieces - 1) :
                CountIndex(f, i) = IF i < dropbox_files[f].chunk_count THEN 1 ELSE 0

\* the changes of processing_status the state machine allows
AllowedStatusChanges ==
    {<<"pending", "processing">>, <<"processing", "completed">>,
     <<"processing", "failed">>, <<"failed", "processing">>}

\* C6: every change of a FileRecord's processing_status is pending->processing,
\* processing->completed, processing->failed or failed->processing.
C6_StatusChangesAllowed ==
    [][\A f \in RecordIds :
          dropbox_files'[f].processing_status # dropbox_files[f].processing_status =>
              <<dropbox_files[f].processing_status, dropbox_files'[f].processing_status>>
                  \in AllowedStatusChanges]_vars

\* a consumer whose process_dropbox_file has returned after a database error of the
\* persist step (insert_many or a completion update raised)
PersistFailed(w) == pc[w] = "settle" /\ err[w] = "database"

\* C7 as stated: after a database error in the persist step process_dropbox_file has
\* returned failure and the FileRecord's processing_status is still processing.
C7_PersistFailureLeavesProcessing ==
    \A w \in Workers :
        PersistFailed(w) =>
            /\ ~success[w]
            /\ dropbox_files[Body(w).file_id].processing_status = "processing"

\* C7 amended: after a database error in the persist step process_dropbox_file has
\* returned failure and the FileRecord is not completed: the failure handler has set it
\* to failed with last_error the text of the error or, when that write raised too, it is
\* still processing.
C7_PersistFailureMarksFailed ==
    \A w \in Workers :
        PersistFailed(w) =>
            LET record == dropbox_files[Body(w).file_id]
            IN /\ ~success[w]
               /\ record.processing_status \in {"failed", "processing"}
               /\ record.processing_status = "failed" => record.last_error = "database"

\* insert_many raised, the handler wrote failed, process_dropbox_file returned False
C7_Witness ==
    \E w \in Workers :
        /\ PersistFailed(w)
        /\ ~success[w]
        /\ dropbox_files[Body(w).file_id].processing_status = "failed"
        /\ dropbox_files[Body(w).file_id].last_error = "database"
        /\ CountChunks(Body(w).file_id) = 0

\* C8: when the embedding request raised, process_dropbox_file returns failure and the
\* FileRecord is not completed (so the message is not acknowledged).
C8_EmbeddingFailureFailsFile ==
    \A w \in Workers :
        (embed_raised[w] /\ pc[w] = "settle") =>
            /\ ~success[w]
            /\ dropbox_files[Body(w).file_id].processing_status # "completed"

\* C9: every ChunkRecord stored in dropbox_chunks carries an embedding.
C9_NoChunkWithoutEmbedding ==
    \A d \in ChunkDocs : dropbox_chunks[d] > 0 => d.embedding

\* the response had a vector for one chunk and none for another: one was inserted, the
\* other dropped
C9_Witness ==
    \E w \in Workers :
        /\ pc[w] = "mark_completed"
        /\ \E i \in 1..Len(chunks[w]) : ~chunks[w][i].embedding
        /\ \E i \in 1..Len(chunks[w]) : chunks[w][i].embedding
        /\ CountChunks(Body(w).file_id) = 1

----------------------------------------------------------------------------
(***************************************************************************)
(* Progress.  The event loop runs every step of run that is ready (an      *)
(* await returns, the loop goes round), and the queue lets every lock run  *)
(* out; stop() may come at any time or never.                              *)
(***************************************************************************)
ConsumerStep(w) ==
    \/ Start(w)
    \/ Exit(w)
    \/ \E m \in MsgIds : Receive(w, m)
    \/ ReceiveError(w)
    \/ StartProcessing(w)
    \/ Download(w)
    \/ Convert(w)
    \/ UploadMarkdown(w)
    \/ ChunkMarkdown(w)
    \/ GenerateEmbeddings(w)
    \/ InsertChunks(w)
    \/ MarkCompleted(w)
    \/ MarkFailed(w)
    \/ Settle(w)

Fairness ==
    /\ \A w \in Workers : WF_vars(ConsumerStep(w))
    /\ \A m \in MsgIds : WF_vars(LockExpire(m))

LiveSpec == Init /\ [][Next]_vars /\ Fairness

----------------------------------------------------------------------------
(***************************************************************************)
(* The consumer and the queue.                                             *)
(***************************************************************************)

\* C11: while a consumer is processing or settling a message, the message is in the
\* queue under that consumer's lock: it is neither removed nor available for delivery
\* to anyone else.
C11_LockHeldWhileProcessing ==
    \A w \in Workers : Working(w) => HoldsLock(w)

\* C12: a consumer takes a message only from the receive position of its loop, when it
\* holds no message or has attempted the resolution of the one it held, and it takes one
\* message, whose processing then starts; while it works it holds that one message.
C12_OneMessageAtATime ==
    [][\A w \in Workers :
          /\ Working(w) => msg[w] # NoMsg
          /\ msg'[w] # msg[w] =>
                /\ pc[w] = "receive"
                /\ msg[w] = NoMsg \/ call[w].name # "none"
                /\ msg'[w].id \in MsgIds
                /\ pc'[w] = "parse"]_vars

\* the second message is taken after the first one was processed and resolved
C12_Witness ==
    \E w \in Workers :
        /\ pc[w] = "parse"
        /\ msg[w].id = "m2"
        /\ queue["m1"].state = "completed"
        /\ queue["m1"].delivery_count = 1

\* C13: a transport error of the queue never ends the consumer.  When a settle call
\* raises, the consumer sleeps 1 second and is at the receive of its loop again; when the
\* receive raises, it sleeps 5 seconds and is at the receive again; running is not
\* touched, and the loop ends only by its test of running.
C13_TransportErrorNotFatal ==
    [][\A w \in Workers :
          /\ (pc[w] = "settle" /\ pc'[w] # "settle" /\ call'[w].raised) =>
                (pc'[w] = "receive" /\ slept'[w] = 1 /\ running'[w] = running[w])
          /\ (pc[w] = "receive" /\ faults' = faults + 1) =>
                (pc'[w] = "receive" /\ slept'[w] = 5 /\ running'[w] = running[w])
          /\ (pc[w] # "stopped" /\ pc'[w] = "stopped") =>
                (pc[w] = "receive" /\ ~running[w])]_vars

\* a settle call has raised and the consumer, still running, is back at the receive
C13_Witness ==
    \E w \in Workers :
        /\ pc[w] = "receive"
        /\ running[w]
        /\ call[w].raised
        /\ slept[w] = 1
        /\ queue[msg[w].id].state = "locked"

C15_MissingRecordNotRetried ==
    [][\A w \in Workers :
          (pc[w] = "settle" /\ pc'[w] # "settle" /\ returned_at[w] = "not_found") =>
              /\ ~success[w]
              /\ call'[w].name # "abandon_message"
              /\ msg[w].delivery_count = 1]_vars

\* a message that is not valid JSON or lacks a required field
Poison(m) == queue[m].body.kind # "valid"

\* C16: a message that is not valid JSON or lacks a required field makes
\* process_dropbox_file return failure in its first step with both collections
\* unchanged; run then abandons it below the ceiling and dead-letters it at the ceiling;
\* it is never acknowledged, and it is eventually dead-lettered (unless the consumer is
\* stopped first).
C16_PoisonFailsAndDeadLetters ==
    /\ [][\A w \in Workers :
             /\ (pc[w] = "parse" /\ Poison(msg[w].id) /\ pc'[w] # "parse") =>
                   /\ pc'[w] = "settle"
                   /\ ~success'[w]
                   /\ dbVars' = dbVars
             /\ (pc[w] = "settle" /\ Poison(msg[w].id) /\ pc'[w] # "settle") =>
                   call'[w].name = IF msg[w].delivery_count >= MAX_RECEIVE_COUNT
                                   THEN "dead_letter_message" ELSE "abandon_message"]_vars
    /\ [](\A m \in MsgIds : Poison(m) => queue[m].state # "completed")
    /\ \A m \in MsgIds :
          (Poison(m) /\ queue[m].state = "active") ~>
              (queue[m].state = "dead_lettered" \/ \A w \in Workers : pc[w] = "stopped")

\* a message lacking a field, whose file_id names a FileRecord, is dead-lettered after
\* MAX_RECEIVE_COUNT deliveries and the FileRecord is as it was
C16_Witness ==
    /\ queue["m1"].body = [kind |-> "missing_field", file_id |-> "f1"]
    /\ queue["m1"].state = "dead_lettered"
    /\ queue["m1"].delivery_count = MAX_RECEIVE_COUNT
    /\ dropbox_files["f1"] = PendingRecord

----------------------------------------------------------------------------
(***************************************************************************)
(* processing_metadata and the order of the pipeline.                      *)
(***************************************************************************)

\* C17: when run abandons or dead-letters a message after a failed processing, and a
\* FileRecord exists for the message's file_id, last_error is written on that FileRecord.
C17_FailureWritesLastError ==
    [][\A w \in Workers :
          (/\ pc[w] = "settle" /\ pc'[w] # "settle"
           /\ ~success[w]
           /\ call'[w].name \in {"abandon_message", "dead_letter_message"}
           /\ Body(w).file_id \in DOMAIN dropbox_files) =>
              dropbox_files[Body(w).file_id].last_error # NoError]_vars

\* C18: a FileRecord whose status is failed has last_error set, and the update that
\* makes it failed writes the description of the error that was caught.
C18_FailedHasLastError ==
    [][\A f \in RecordIds :
          /\ dropbox_files[f].processing_status = "failed" =>
                dropbox_files[f].last_error # NoError
          /\ dropbox_files'[f].processing_status = "failed" =>
                dropbox_files'[f].last_error # NoError
          /\ (/\ dropbox_files[f].processing_status # "failed"
              /\ dropbox_files'[f].processing_status = "failed") =>
                \E w \in Workers :
                    /\ pc[w] = "mark_failed"
                    /\ err[w] # NoError
                    /\ dropbox_files'[f].last_error = err[w]]_vars

\* a failed download has been recorded and the message abandoned
C18_Witness ==
    /\ dropbox_files["f1"].processing_status = "failed"
    /\ dropbox_files["f1"].last_error = "download"
    /\ queue["m1"].state = "active"
    /\ queue["m1"].delivery_count = 1

\* C19: every entry into processing (the step from the parsed message to the pipeline)
\* adds one to attempts of the FileRecord.
C19_AttemptsCountEntries ==
    [][\A w \in Workers :
          (pc[w] = "parse" /\ pc'[w] = "download") =>
              dropbox_files'[Body(w).file_id].attempts =
                  dropbox_files[Body(w).file_id].attempts + 1]_vars

\* the positions of the pipeline: scratch file and download, conversion, markdown
\* upload, chunking, embedding, chunk insertion, completion, failure handler
PipelinePositions ==
    {"download", "convert", "upload", "chunk", "embed", "insert", "mark_completed",
     "mark_failed"}

\* C20: the pipeline of a delivery is entered only at its first position, and only by
\* the step that writes processing on the FileRecord.
C20_ProcessingBeforePipeline ==
    [][\A w \in Workers :
          (pc'[w] \in PipelinePositions /\ pc[w] \notin PipelinePositions) =>
              /\ pc[w] = "parse"
              /\ pc'[w] = "download"
              /\ dropbox_files'[Body(w).file_id].processing_status = "processing"]_vars

\* a redelivery after a failed conversion: the record is processing again before the
\* download
C20_Witness ==
    \E w \in Workers :
        /\ pc[w] = "download"
        /\ msg[w].delivery_count = 2
        /\ dropbox_files[Body(w).file_id].processing_status = "processing"
        /\ dropbox_files[Body(w).file_id].last_error = "convert"

----------------------------------------------------------------------------
(***************************************************************************)
(* The outcomes of the pipeline.                                           *)
(***************************************************************************)

\* C21: when process_dropbox_file has returned True on the first delivery of the message
\* of a pending FileRecord, the record is completed with chunk_count the number of
\* ChunkRecords stored for it and run calls complete_message, which removes the message
\* unless the call raises; and run calls complete_message only for a message whose
\* FileRecord is completed.
C21_SuccessCompletesThenAcknowledges ==
    [][\A w \in Workers :
          (pc[w] = "settle" /\ pc'[w] # "settle") =>
              /\ call'[w].name = "complete_message" =>
                    /\ success[w]
                    /\ dropbox_files[Body(w).file_id].processing_status = "completed"
              /\ (success[w] /\ msg[w].delivery_count = 1) =>
                    /\ dropbox_files[Body(w).file_id].processing_status = "completed"
                    /\ dropbox_files[Body(w).file_id].chunk_count =
                           CountChunks(Body(w).file_id)
                    /\ call'[w].name = "complete_message"
                    /\ ~call'[w].raised => queue'[msg[w].id].state = "completed"]_vars

\* the first delivery succeeded with a chunk stored and the message is acknowledged
C21_Witness ==
    /\ queue["m1"].state = "completed"
    /\ queue["m1"].delivery_count = 1
    /\ dropbox_files["f1"].processing_status = "completed"
    /\ dropbox_files["f1"].chunk_count = 1
    /\ CountChunks("f1") = 1

\* C22: when chunk_markdown returns no chunk, the step either completes the FileRecord
\* with chunk_count 0 and returns True, inserting nothing, or (the update raised) goes
\* to the failure handler; the embedding step is entered only with chunks.
C22_ZeroChunksCompletes ==
    [][\A w \in Workers :
          /\ (pc[w] = "chunk" /\ pc'[w] \notin {"chunk", "embed", "mark_failed"}) =>
                /\ pc'[w] = "settle"
                /\ success'[w]
                /\ returned_at'[w] = "no_chunks"
                /\ dropbox_files'[Body(w).file_id].processing_status = "completed"
                /\ dropbox_files'[Body(w).file_id].chunk_count = 0
                /\ dropbox_chunks' = dropbox_chunks
                /\ ~embed_raised'[w]
          /\ (pc[w] = "chunk" /\ pc'[w] = "mark_failed") => err'[w] = "database"
          /\ (pc[w] # "embed" /\ pc'[w] = "embed") =>
                (pc[w] = "chunk" /\ chunks'[w] # <<>>)]_vars

\* a document without chunks: completed with chunk_count 0, nothing stored, acknowledged
C22_Witness ==
    \E w \in Workers :
        /\ pc[w] = "receive"
        /\ call[w] = [name |-> "complete_message", raised |-> FALSE]
        /\ dropbox_files["f1"].processing_status = "completed"
        /\ dropbox_files["f1"].chunk_count = 0
        /\ CountChunks("f1") = 0
        /\ queue["m1"].delivery_count = 1

\* C23: convert_to_markdown is called once in a delivery; when it returns None (the
\* converter raised, or there is none) or an empty string, process_dropbox_file goes to
\* its failure handler with no further pipeline step, and returns False with the
\* FileRecord failed and last_error written (when the handler's update is carried out).
C23_ConversionFailureFailsDelivery ==
    [][\A w \in Workers :
          /\ (pc[w] = "convert" /\ pc'[w] # "convert") =>
                /\ markdown_content[w] = "unset"
                /\ IF markdown_content'[w] \in {"None", "empty"}
                   THEN /\ pc'[w] = "mark_failed"
                        /\ err'[w] = "convert"
                        /\ dbVars' = dbVars
                   ELSE /\ pc'[w] = "upload"
                        /\ markdown_content'[w] = "markdown"
          /\ err'[w] = "convert" => pc'[w] \in {"mark_failed", "settle"}
          /\ (pc[w] = "mark_failed" /\ err[w] = "convert" /\ pc'[w] # "mark_failed") =>
                /\ pc'[w] = "settle"
                /\ ~success'[w]
                /\ dropbox_chunks' = dropbox_chunks
                /\ faults' = faults =>
                      /\ dropbox_files'[Body(w).file_id].processing_status = "failed"
                      /\ dropbox_files'[Body(w).file_id].last_error = "convert"]_vars

\* a delivery whose conversion gave an empty string has returned False with the record
\* failed, and nothing was stored
C23_Witness ==
    \E w \in Workers :
        /\ pc[w] = "settle"
        /\ markdown_content[w] = "empty"
        /\ ~success[w]
        /\ dropbox_files[Body(w).file_id].processing_status = "failed"
        /\ dropbox_files[Body(w).file_id].last_error = "convert"
        /\ CountChunks(Body(w).file_id) = 0

\* C24: in one delivery _download_file is tried at most MAX_RETRIES times and the loop is
\* left at the first attempt that succeeds; when MAX_RETRIES attempts have failed the loop
\* ends, process_dropbox_file goes to its failure handler with no further pipeline step
\* and returns False with the FileRecord failed and last_error written (when the
\* handler's update is carried out).
C24_DownloadAttemptsBounded ==
    [][\A w \in Workers :
          /\ attempt'[w] <= MAX_RETRIES
          /\ pc'[w] # "download" => attempt'[w] = 0
          /\ pc[w] = "download" =>
                \/ pc'[w] = "download" /\ attempt'[w] \in {attempt[w], attempt[w] + 1}
                \/ pc'[w] = "convert" /\ attempt[w] < MAX_RETRIES
                \/ /\ pc'[w] = "mark_failed"
                   /\ attempt[w] = MAX_RETRIES
                   /\ err'[w] = "download"
                   /\ dbVars' = dbVars
          /\ err'[w] = "download" => pc'[w] \in {"mark_failed", "settle"}
          /\ (pc[w] = "mark_failed" /\ err[w] = "download" /\ pc'[w] # "mark_failed") =>
                /\ pc'[w] = "settle"
                /\ ~success'[w]
                /\ dropbox_chunks' = dropbox_chunks
                /\ faults' = faults =>
                      /\ dropbox_files'[Body(w).file_id].processing_status = "failed"
                      /\ dropbox_files'[Body(w).file_id].last_error = "download"]_vars

\* every attempt of a delivery has failed: the loop is over, with a sleep after each
\* attempt but the last
C24_Witness ==
    \E w \in Workers :
        /\ pc[w] = "download"
        /\ attempt[w] = MAX_RETRIES
        /\ Len(delays[w]) = MAX_RETRIES - 1

----------------------------------------------------------------------------
(***************************************************************************)
(* download_file_with_retry under any configuration.                       *)
(***************************************************************************)

MaxBase == 4
MaxRetriesCfg == 4

\* process_dropbox_file calls download_file_with_retry: the first delivery of the
\* message of a FileRecord, set to processing, with the scratch file created; MAX_RETRIES
\* and RETRY_DELAY_BASE are read from the environment (the base, a float in the code, is
\* taken over the integers)
BackoffInit ==
    /\ dropbox_files = [f \in RecordIds |-> mark_processing(PendingRecord)]
    /\ dropbox_chunks = [d \in ChunkDocs |-> 0]
    /\ queue = [m \in MsgIds |->
                   IF m = "m1"
                   THEN [state |-> "locked", body |-> [kind |-> "valid", file_id |-> "f1"],
                         delivery_count |-> 1]
                   ELSE [state |-> "absent", body |-> PoisonBody, delivery_count |-> 0]]
    /\ running = [w \in Workers |-> TRUE]
    /\ pc = [w \in Workers |-> "download"]
    /\ msg = [w \in Workers |-> [id |-> "m1", delivery_count |-> 1]]
    /\ chunks = [w \in Workers |-> <<>>]
    /\ err = [w \in Workers |-> NoError]
    /\ success = [w \in Workers |-> FALSE]
    /\ call = [w \in Workers |-> NoCall]
    /\ embed_raised = [w \in Workers |-> FALSE]
    /\ chunk_raised = [w \in Workers |-> FALSE]
    /\ slept = [w \in Workers |-> 0]
    /\ returned_at = [w \in Workers |-> "none"]
    /\ markdown_content = [w \in Workers |-> "unset"]
    /\ temp_file = [w \in Workers |-> TRUE]
    /\ attempt = [w \in Workers |-> 0]
    /\ delays = [w \in Workers |-> <<>>]
    /\ max_retries \in 0..MaxRetriesCfg
    /\ retry_delay_base \in 0..MaxBase
    /\ sync = [s \in Syncs |-> NoSync]
    /\ blob_store = {}
    /\ faults = 0
    /\ history = [m \in MsgIds |-> NoHistory]
    /\ completions = [f \in RecordIds |-> NoCompletion]

BackoffNext == \E w \in Workers : Download(w)

BackoffSpec == BackoffInit /\ [][BackoffNext]_vars

RECURSIVE Power(_, _)
Power(b, n) == IF n = 0 THEN 1 ELSE b * Power(b, n - 1)

\* the sleep after the failed attempt n (counted from 0) is RETRY_DELAY_BASE^n
DelaysArePowers ==
    \A w \in Workers : \A i \in 1..Len(delays[w]) :
        delays[w][i] = Power(retry_delay_base, i - 1)

\* no sleep of one download is shorter than the one before it
DelaysNonDecreasing ==
    \A w \in Workers : \A i \in 2..Len(delays[w]) : delays[w][i - 1] <= delays[w][i]

\* C25 as stated: for any RETRY_DELAY_BASE and MAX_RETRIES the delay after attempt n is
\* RETRY_DELAY_BASE^n and the delays of one download never decrease.
C25_DelaysPowersNonDecreasing == DelaysArePowers /\ DelaysNonDecreasing

\* C25: for any RETRY_DELAY_BASE and MAX_RETRIES the delay after attempt n is
\* RETRY_DELAY_BASE^n; the delays of one download never decrease when RETRY_DELAY_BASE
\* is at least 1.
C25_DelaysPowersNonDecreasingFromBaseOne ==
    /\ DelaysArePowers
    /\ retry_delay_base >= 1 => DelaysNonDecreasing

\* base 2 and four attempts allowed, three failed: the sleeps were 1, 2 and 4
C25_Witness ==
    /\ retry_delay_base = 2
    /\ max_retries = 4
    /\ \E w \in Workers : pc[w] = "download" /\ delays[w] = <<1, 2, 4>>

----------------------------------------------------------------------------
(***************************************************************************)
(* The scratch file.                                                       *)
(***************************************************************************)

\* the positions inside the inner try of process_dropbox_file
InnerTry == PipelinePositions \ {"mark_failed"}

----------------------------------------------------------------------------
(***************************************************************************)
(* The numbering of chunks.                                                *)
(***************************************************************************)

\* C27: the chunks chunk_markdown has returned carry chunk_index 0, 1, ..., k-1 in
\* order, whatever pieces the splitter gave: the i-th retained chunk has index i-1.
C27_RetainedChunksNumberedFromZero ==
    \A w \in Workers : \A i \in 1..Len(chunks[w]) : chunks[w][i].chunk_index = i - 1

----------------------------------------------------------------------------
(***************************************************************************)
(* manual_sync (POST /api/dropbox/sync).                                   *)
(***************************************************************************)

MaxFiles == 2

\* ObjectIds a FileRecord of the store can have
SyncRecordIds == {"f1", "f2"}

\* one entry of list_files: server_modified is "None" and content_hash is "" when
\* Dropbox gives none; supported is is_supported_file_type(get_file_extension(name));
\* content stands for the bytes Dropbox holds for the file, which download_file returns,
\* and a content_hash that is given is Dropbox's hash of these bytes
FileMetadata ==
    {m \in [id : DropboxIds, supported : {TRUE}, server_modified : {"None", "t1", "t2"},
            content_hash : {"", "x1", "x2"}, content : Contents] :
        m.content_hash \in {"", dropbox_content_hash(m.content)}}
        \cup [id : DropboxIds, supported : {FALSE}, server_modified : {"t1"},
              content_hash : {"x1"}, content : {"c1"}]

\* what list_files can return: up to MaxFiles entries, no file twice
Listings ==
    {l \in SeqsUpTo(FileMetadata, MaxFiles) :
        \A i, j \in 1..Len(l) : l[i].id = l[j].id => i = j}

\* the names bound when file_record is built: the parameters, the imports of the module
\* and the locals assigned on the way there
NamesInScope ==
    {"sync_request", "db", "dropbox_service", "queue_service", "blob_service", "files",
     "files_queued", "files_skipped", "file_metadata", "file_type", "existing",
     "file_content", "sha256_hash", "container_name", "blob_name", "blob_client",
     "blob_url", "os", "logging", "hashlib", "datetime", "ObjectId", "logger", "app"}

\* as if every name the literal reads were bound
name_error_never(name) == FALSE

\* evaluating a name that is not bound raises NameError
name_error(name) == name \notin NamesInScope

\* the names the file_record literal reads
file_record_names ==
    {"file_metadata", "file_type", "blob_url", "sha256_hash", "datetime", "file_hash"}

NoRecord == "none"

\* db.dropbox_files.find_one({"dropbox_file_id": id}): the _id of a record, or NoRecord
find_one(files, id) ==
    IF \E f \in DOMAIN files : files[f].dropbox_file_id = id
    THEN CHOOSE f \in DOMAIN files : files[f].dropbox_file_id = id
    ELSE NoRecord

\* the two-step deduplication check: what the loop does with a supported file
dedup(force_reprocess, files, meta) ==
    LET existing == find_one(files, meta.id)
    IN IF force_reprocess THEN "process"
       ELSE IF existing = NoRecord THEN "process"
       ELSE IF /\ files[existing].dropbox_modified_at # "None"
               /\ meta.server_modified # "None"
               /\ files[existing].dropbox_modified_at = meta.server_modified
            THEN "skip_metadata"
       ELSE IF /\ meta.content_hash # ""
               /\ files[existing].content_hash = meta.content_hash
            THEN "skip_hash"
       ELSE "process"

\* the update of the hash-match path, resetting the record for processing as well
hash_skip_update_resetting(record, new_modified) ==
    [record EXCEPT !.dropbox_modified_at = new_modified, !.processing_status = "pending"]

\* update_one({"_id": existing["_id"]}, {"$set": {"dropbox_modified_at": new_modified}})
hash_skip_update(record, new_modified) ==
    [record EXCEPT !.dropbox_modified_at = new_modified]

\* the file_record dictionary
file_record(meta, sha256_hash, blob_url, content_hash) ==
    [PendingRecord EXCEPT !.dropbox_file_id = meta.id,
                          !.dropbox_modified_at = meta.server_modified,
                          !.content_hash = content_hash,
                          !.file_hash = sha256_hash,
                          !.blob_url = blob_url,
                          !.created_at = "now"]

\* what {"$set": file_record} writes on a record that exists: every key of file_record
set_file_record(record, rec) ==
    [record EXCEPT !.processing_status = rec.processing_status,
                   !.chunk_count = rec.chunk_count,
                   !.dropbox_file_id = rec.dropbox_file_id,
                   !.dropbox_modified_at = rec.dropbox_modified_at,
                   !.content_hash = rec.content_hash,
                   !.file_hash = rec.file_hash,
                   !.blob_url = rec.blob_url,
                   !.created_at = rec.created_at]

\* update_one({"dropbox_file_id": id}, {"$set": file_record}, upsert=True)
upsert(files, rec) ==
    LET existing == find_one(files, rec.dropbox_file_id)
    IN IF existing # NoRecord
       THEN [files EXCEPT ![existing] = set_file_record(@, rec)]
       ELSE LET new == CHOOSE f \in SyncRecordIds : f \notin DOMAIN files
            IN [f \in DOMAIN files \cup {new} |-> IF f = new THEN rec ELSE files[f]]

\* sender.send_messages(message): one more message in the queue
send_messages(q, file_id) ==
    IF \E m \in MsgIds : q[m].state = "absent"
    THEN LET m == CHOOSE n \in MsgIds : q[n].state = "absent"
         IN [q EXCEPT ![m] = [state |-> "active",
                              body |-> [kind |-> "valid", file_id |-> file_id],
                              delivery_count |-> 0]]
    ELSE q

\* the variables manual_sync does not touch
workerVars ==
    <<dropbox_chunks, running, pc, msg, chunks, err, success, call, embed_raised, chunk_raised, slept,
      returned_at, markdown_content, temp_file, attempt, delays, max_retries,
      retry_delay_base, faults, history, completions>>

\* the file the loop is at
Candidate(s) == sync[s].files[sync[s].idx]

\* an entry of the log: what was decided for the file, which call raised (if any),
\* whether its bytes were downloaded, its blob uploaded, its message sent
Entry(s, decision, exc, downloaded, uploaded, queued) ==
    [id |-> Candidate(s).id, decision |-> decision, exc |-> exc,
     downloaded |-> downloaded, uploaded |-> uploaded, queued |-> queued]

\* continue, without files_skipped += 1
SkipFileUncounted(s, entry) ==
    sync' = [sync EXCEPT ![s].idx = @ + 1, ![s].pc = "file",
                         ![s].file_content = "none", ![s].log = Append(@, entry)]

\* files_skipped += 1; continue
SkipFile(s, entry) ==
    sync' = [sync EXCEPT ![s].files_skipped = @ + 1, ![s].idx = @ + 1,
                         ![s].pc = "file", ![s].file_content = "none",
                         ![s].log = Append(@, entry)]

\* `except Exception as e` of the loop body, giving up the whole call
FileFailedAborting(s, entry) ==
    sync' = [sync EXCEPT ![s].pc = "done", ![s].response = "error",
                         ![s].file_content = "none", ![s].log = Append(@, entry)]

\* `except Exception as e` of the loop body: the error is logged, files_skipped += 1,
\* continue
FileFailed(s, entry) == SkipFile(s, entry)

\* files_queued += 1, and the loop goes on
QueueFile(s, entry) ==
    sync' = [sync EXCEPT ![s].files_queued = @ + 1, ![s].idx = @ + 1,
                         ![s].pc = "file", ![s].file_content = "none",
                         ![s].log = Append(@, entry)]

\* The request arrives and list_files is called; when it raises, the outer handler
\* answers HTTP 500.
SyncStart(s) ==
    /\ sync[s].pc = "idle"
    /\ \E force \in BOOLEAN :
          LET known == {dropbox_files[f].dropbox_file_id : f \in DOMAIN dropbox_files}
          IN \/ \E listing \in Listings :
                   sync' = [sync EXCEPT ![s].pc = "file", ![s].force_reprocess = force,
                                        ![s].files = listing, ![s].idx = 1,
                                        ![s].known = known]
             \/ sync' = [sync EXCEPT ![s].pc = "done", ![s].force_reprocess = force,
                                     ![s].response = "error", ![s].known = known]
    /\ UNCHANGED <<dropbox_files, queue, blob_store, workerVars>>

\* The top of the loop body for one file: the file type check and the deduplication
\* check, with the update of the hash-match path.  find_one and update_one can raise.
SyncDedup(s) ==
    /\ sync[s].pc = "file"
    /\ sync[s].idx <= Len(sync[s].files)
    /\ LET meta == Candidate(s)
           decision == dedup(sync[s].force_reprocess, dropbox_files, meta)
       IN IF ~meta.supported
          THEN /\ SkipFile(s, Entry(s, "unsupported", "none", FALSE, FALSE, FALSE))
               /\ UNCHANGED dropbox_files
          ELSE \/ /\ ~sync[s].force_reprocess
                  /\ FileFailed(s, Entry(s, "unknown", "find_one", FALSE, FALSE, FALSE))
                  /\ UNCHANGED dropbox_files
               \/ /\ decision = "skip_metadata"
                  /\ SkipFile(s, Entry(s, decision, "none", FALSE, FALSE, FALSE))
                  /\ UNCHANGED dropbox_files
               \/ /\ decision = "skip_hash"
                  /\ \/ /\ dropbox_files' =
                              [dropbox_files EXCEPT ![find_one(dropbox_files, meta.id)] =
                                  hash_skip_update(@, meta.server_modified)]
                        /\ SkipFile(s, Entry(s, decision, "none", FALSE, FALSE, FALSE))
                     \/ /\ FileFailed(s, Entry(s, decision, "update_one", FALSE, FALSE,
                                             FALSE))
                        /\ UNCHANGED dropbox_files
               \/ /\ decision = "process"
                  /\ sync' = [sync EXCEPT ![s].pc = "download"]
                  /\ UNCHANGED dropbox_files
    /\ UNCHANGED <<queue, blob_store, workerVars>>

\* dropbox_service.download_file returns the bytes or raises
SyncDownload(s) ==
    /\ sync[s].pc = "download"
    /\ \/ sync' = [sync EXCEPT ![s].pc = "upload",
                                ![s].file_content = Candidate(s).content]
       \/ FileFailed(s, Entry(s, "process", "download_file", FALSE, FALSE, FALSE))
    /\ UNCHANGED <<dropbox_files, queue, blob_store, workerVars>>

\* From the hash to the end of the loop body: upload_blob (which can raise), the
\* file_record literal, the upsert, the lookup of the id, the message.  The literal reads
\* the name file_hash, which nothing binds: NameError, caught by the handler of the loop
\* body.
SyncUpload(s) ==
    /\ sync[s].pc = "upload"
    /\ LET meta == Candidate(s)
           sha256_hash == sha256(sync[s].file_content)
           blob == blob_name(sha256_hash, meta.id)
       IN \/ /\ FileFailed(s, Entry(s, "process", "upload_blob", TRUE, FALSE, FALSE))
             /\ UNCHANGED <<dropbox_files, queue, blob_store>>
          \/ /\ blob_store' = blob_store \cup {blob}
             /\ IF \E name \in file_record_names : name_error(name)
                THEN /\ FileFailed(s, Entry(s, "process", "NameError", TRUE, TRUE, FALSE))
                     /\ UNCHANGED <<dropbox_files, queue>>
                ELSE LET rec == file_record(meta, sha256_hash, blob, meta.content_hash)
                         stored == upsert(dropbox_files, rec)
                         file_id == find_one(stored, meta.id)
                     IN \/ /\ FileFailed(s, Entry(s, "process", "update_one", TRUE, TRUE,
                                                FALSE))
                           /\ UNCHANGED <<dropbox_files, queue>>
                        \/ /\ dropbox_files' = stored
                           /\ \/ /\ queue' = send_messages(queue, file_id)
                                 /\ QueueFile(s, Entry(s, "process", "none", TRUE, TRUE,
                                                       TRUE))
                              \/ /\ SkipFile(s, Entry(s, "process", "send_messages", TRUE,
                                                      TRUE, FALSE))
                                 /\ UNCHANGED queue
    /\ UNCHANGED workerVars

\* the loop is over: the SyncResponse
SyncReturn(s) ==
    /\ sync[s].pc = "file"
    /\ sync[s].idx > Len(sync[s].files)
    /\ sync' = [sync EXCEPT ![s].pc = "done", ![s].response = "success"]
    /\ UNCHANGED <<dropbox_files, queue, blob_store, workerVars>>

\* the records the store can hold for the file d1 when a call arrives: one written
\* earlier, processed (to no chunk) or not
StoredRecords ==
    {[PendingRecord EXCEPT !.dropbox_modified_at = t, !.content_hash = h,
                           !.processing_status = st] :
        t \in {"None", "t1"}, h \in {"None", "x1"}, st \in {"pending", "completed"}}

\* the worker is not running; the queue is empty; the store holds no FileRecord or one
SyncInit ==
    /\ \/ dropbox_files = [f \in {} |-> PendingRecord]
       \/ \E rec \in StoredRecords : dropbox_files = [f \in {"f1"} |-> rec]
    /\ dropbox_chunks = [d \in ChunkDocs |-> 0]
    /\ queue = [m \in MsgIds |->
                   [state |-> "absent", body |-> PoisonBody, delivery_count |-> 0]]
    /\ running = [w \in Workers |-> FALSE]
    /\ pc = [w \in Workers |-> "start"]
    /\ msg = [w \in Workers |-> NoMsg]
    /\ chunks = [w \in Workers |-> <<>>]
    /\ err = [w \in Workers |-> NoError]
    /\ success = [w \in Workers |-> FALSE]
    /\ call = [w \in Workers |-> NoCall]
    /\ embed_raised = [w \in Workers |-> FALSE]
    /\ chunk_raised = [w \in Workers |-> FALSE]
    /\ slept = [w \in Workers |-> 0]
    /\ returned_at = [w \in Workers |-> "none"]
    /\ markdown_content = [w \in Workers |-> "unset"]
    /\ temp_file = [w \in Workers |-> FALSE]
    /\ attempt = [w \in Workers |-> 0]
    /\ delays = [w \in Workers |-> <<>>]
    /\ max_retries = MAX_RETRIES
    /\ retry_delay_base = RETRY_DELAY_BASE
    /\ sync = [s \in Syncs |-> NoSync]
    /\ blob_store = {}
    /\ faults = 0
    /\ history = [m \in MsgIds |-> NoHistory]
    /\ completions = [f \in RecordIds |-> NoCompletion]

\* the call the model follows from any request and any listing
FirstCall == "s1"

SyncNext ==
    \/ SyncStart(FirstCall)
    \/ \E s \in Syncs : SyncDedup(s)
    \/ \E s \in Syncs : SyncDownload(s)
    \/ \E s \in Syncs : SyncUpload(s)
    \/ \E s \in Syncs : SyncReturn(s)

SyncSpec == SyncInit /\ [][SyncNext]_vars

----------------------------------------------------------------------------
(***************************************************************************)
(* The deduplication check and the outcome of sync for one file.           *)
(***************************************************************************)

\* the calls of manual_sync to other services
ExternalCalls ==
    {"find_one", "update_one", "download_file", "upload_blob", "send_messages"}

\* the entry the step has added to the log of the call
Logged(s) == sync'[s].log[Len(sync'[s].log)]

\* the step finishes the current file, a supported one, and no external call has raised
FinishesFile(s) ==
    /\ sync[s].pc \in {"file", "download", "upload"}
    /\ sync[s].idx <= Len(sync[s].files)
    /\ sync'[s].idx = sync[s].idx + 1
    /\ Candidate(s).supported
    /\ Logged(s).exc \notin ExternalCalls

\* the decision as the specification gives it
Decision(force_reprocess, files, meta) ==
    LET existing == find_one(files, meta.id)
    IN IF existing = NoRecord THEN "New"
       ELSE IF force_reprocess THEN "Reprocess"
       ELSE IF /\ files[existing].dropbox_modified_at # "None"
               /\ meta.server_modified # "None"
               /\ files[existing].dropbox_modified_at = meta.server_modified
            THEN "Skip"
       ELSE IF files[existing].content_hash = meta.content_hash THEN "Skip"
       ELSE "Reprocess"

\* the store holds a pending FileRecord for the Dropbox id
HasPendingRecord(files, id) ==
    \E f \in DOMAIN files :
        files[f].dropbox_file_id = id /\ files[f].processing_status = "pending"

\* C28: for a supported file and with no external call failing, sync decides New,
\* Reprocess or Skip as specified; a file that is New or Reprocess is downloaded,
\* uploaded, upserted and enqueued, and a file that is Skip is none of these.
C28_DedupDecisionAndEffects ==
    [][\A s \in Syncs :
          LET d == Decision(sync[s].force_reprocess, dropbox_files, Candidate(s))
          IN /\ (sync[s].pc = "file" /\ sync'[s].pc = "download") => d # "Skip"
             /\ FinishesFile(s) =>
                   IF d = "Skip"
                   THEN /\ ~Logged(s).downloaded
                        /\ ~Logged(s).uploaded
                        /\ ~Logged(s).queued
                        /\ blob_store' = blob_store
                        /\ queue' = queue
                   ELSE /\ Logged(s).downloaded
                        /\ Logged(s).uploaded
                        /\ Logged(s).queued
                        /\ HasPendingRecord(dropbox_files', Candidate(s).id)
                        /\ queue' # queue]_vars

\* the file at the top of the loop takes the hash-match path: force_reprocess is off, a
\* record exists, the modification times do not settle it, and the hashes are equal
HashMatch(s) ==
    LET meta == Candidate(s)
        existing == find_one(dropbox_files, meta.id)
    IN /\ sync[s].pc = "file"
       /\ sync[s].idx <= Len(sync[s].files)
       /\ meta.supported
       /\ ~sync[s].force_reprocess
       /\ existing # NoRecord
       /\ ~ /\ dropbox_files[existing].dropbox_modified_at # "None"
            /\ meta.server_modified # "None"
            /\ dropbox_files[existing].dropbox_modified_at = meta.server_modified
       /\ meta.content_hash # ""
       /\ dropbox_files[existing].content_hash = meta.content_hash

\* C29: when sync skips a file by the hash match (and neither find_one nor update_one
\* raised), the step sets dropbox_modified_at of the existing record to the remote
\* modification time and changes nothing else: no other field, no other record, no
\* blob, no message, no download; the file is counted as skipped.
C29_HashSkipChangesOnlyModifiedAt ==
    [][\A s \in Syncs :
          (HashMatch(s) /\ Logged(s).exc = "none") =>
              LET meta == Candidate(s)
                  existing == find_one(dropbox_files, meta.id)
              IN /\ dropbox_files' =
                        [dropbox_files EXCEPT ![existing].dropbox_modified_at =
                                                  meta.server_modified]
                 /\ blob_store' = blob_store
                 /\ queue' = queue
                 /\ dropbox_chunks' = dropbox_chunks
                 /\ sync'[s].pc = "file"
                 /\ sync'[s].idx = sync[s].idx + 1
                 /\ sync'[s].files_skipped = sync[s].files_skipped + 1
                 /\ sync'[s].files_queued = sync[s].files_queued
                 /\ ~Logged(s).downloaded /\ ~Logged(s).uploaded /\ ~Logged(s).queued]_vars

\* a processed record of d1 with modification time t1 was matched by its hash against a
\* listing that gives t2: the record has the new time and is otherwise as it was
C29_Witness ==
    \E s \in Syncs : \E i \in 1..Len(sync[s].log) :
        /\ sync[s].log[i].decision = "skip_hash"
        /\ sync[s].log[i].exc = "none"
        /\ sync[s].files[i].server_modified = "t2"
        /\ dropbox_files["f1"] =
              [PendingRecord EXCEPT !.dropbox_modified_at = "t2",
                                    !.processing_status = "completed"]
        /\ blob_store = {}

\* C30: when a call that listed one supported file for which the store had no record
\* has returned, no external call having raised, the store holds exactly one FileRecord
\* for the file, pending with chunk_count 0, one message for it is in the queue, and the
\* response has files_queued = 1 and files_skipped = 0.
C30_UnseenFileCreatedAndQueued ==
    \A s \in Syncs :
        ( /\ sync[s].pc = "done"
          /\ sync[s].response = "success"
          /\ Len(sync[s].files) = 1
          /\ sync[s].files[1].supported
          /\ sync[s].files[1].id \notin sync[s].known
          /\ \A i \in 1..Len(sync[s].log) : sync[s].log[i].exc \notin ExternalCalls )
        => LET id == sync[s].files[1].id
               records == {f \in DOMAIN dropbox_files :
                              dropbox_files[f].dropbox_file_id = id}
           IN /\ sync[s].files_queued = 1
              /\ sync[s].files_skipped = 0
              /\ Cardinality(records) = 1
              /\ \A f \in records :
                    /\ dropbox_files[f].processing_status = "pending"
                    /\ dropbox_files[f].chunk_count = 0
                    /\ Cardinality({m \in MsgIds :
                                       /\ queue[m].state = "active"
                                       /\ queue[m].body.file_id = f}) = 1

----------------------------------------------------------------------------
(***************************************************************************)
(* Two calls of manual_sync in a row.                                      *)
(***************************************************************************)

\* The same path is synced again once the first call has returned, with Dropbox as it
\* was: force_reprocess is false and list_files returns the listing of the first call
\* (or raises).
SyncAgain(s) ==
    /\ s # FirstCall
    /\ sync[s].pc = "idle"
    /\ sync[FirstCall].pc = "done"
    /\ sync[FirstCall].response = "success"
    /\ LET known == {dropbox_files[f].dropbox_file_id : f \in DOMAIN dropbox_files}
       IN \/ sync' = [sync EXCEPT ![s].pc = "file", ![s].force_reprocess = FALSE,
                                  ![s].files = sync[FirstCall].files, ![s].idx = 1,
                                  ![s].known = known]
          \/ sync' = [sync EXCEPT ![s].pc = "done", ![s].force_reprocess = FALSE,
                                  ![s].response = "error", ![s].known = known]
    /\ UNCHANGED <<dropbox_files, queue, blob_store, workerVars>>

RepeatSyncNext ==
    \/ SyncNext
    \/ \E s \in Syncs : SyncAgain(s)

RepeatSyncSpec == SyncInit /\ [][RepeatSyncNext]_vars

\* the second call has returned a response
SecondReturned(s) ==
    /\ s # FirstCall
    /\ sync[s].pc = "done"
    /\ sync[s].response = "success"

NoExternalFailure(s) ==
    \A i \in 1..Len(sync[s].log) : sync[s].log[i].exc \notin ExternalCalls

\* C32: when a call has synced a listing of one supported file and a second call with
\* force_reprocess false finds Dropbox as it was, no external call failing in either,
\* the second call returns files_queued = 0 and files_skipped = 1 and has neither
\* downloaded the file nor uploaded a blob for it.
C32_SecondSyncSkipsUnchangedFile ==
    \A s \in Syncs :
        ( /\ SecondReturned(s)
          /\ Len(sync[s].files) = 1
          /\ sync[s].files[1].supported
          /\ NoExternalFailure(FirstCall)
          /\ NoExternalFailure(s) )
        => /\ sync[s].files_queued = 0
           /\ sync[s].files_skipped = 1
           /\ ~sync[s].log[1].downloaded
           /\ ~sync[s].log[1].uploaded

----------------------------------------------------------------------------
(***************************************************************************)
(* Failures and counters of a sync call.                                   *)
(***************************************************************************)

\* C33: when handling a file ends in an exception, files_skipped grows by one,
\* files_queued stays, and the loop goes on with the next file; and when the loop is left
\* the call returns a success response with every listed file handled.
C33_FileFailureDoesNotAbort ==
    [][\A s \in Syncs :
          /\ ( /\ Len(sync'[s].log) = Len(sync[s].log) + 1
               /\ Logged(s).exc # "none" )
             => /\ sync'[s].files_skipped = sync[s].files_skipped + 1
                /\ sync'[s].files_queued = sync[s].files_queued
                /\ sync'[s].idx = sync[s].idx + 1
                /\ sync'[s].pc = "file"
                /\ sync'[s].response = "none"
          /\ (sync[s].pc \notin {"idle", "done"} /\ sync'[s].pc = "done")
             => /\ sync'[s].response = "success"
                /\ Len(sync'[s].log) = Len(sync'[s].files)]_vars

\* a call whose first file failed at the blob upload went on to its second file and
\* returned a success response
C33_Witness ==
    \E s \in Syncs :
        /\ sync[s].pc = "done"
        /\ sync[s].response = "success"
        /\ Len(sync[s].log) = 2
        /\ sync[s].log[1].exc = "upload_blob"
        /\ sync[s].log[2].exc = "none"
        /\ sync[s].log[2].decision = "skip_metadata"
        /\ sync[s].files_skipped = 2

----------------------------------------------------------------------------
(***************************************************************************)
(* The upsert of file_record, for any store and any file.                  *)
(***************************************************************************)

\* the supported files a listing can hold
SupportedFiles == {m \in FileMetadata : m.supported}

\* A call stands before the upsert with the file_record of a supported file it has
\* downloaded and uploaded; the store holds no FileRecord, or one for d1.
UpsertInit ==
    /\ \/ dropbox_files = [f \in {} |-> PendingRecord]
       \/ \E rec \in StoredRecords : dropbox_files = [f \in {"f1"} |-> rec]
    /\ \E meta \in SupportedFiles :
          /\ sync = [s \in Syncs |->
                        IF s = FirstCall
                        THEN [NoSync EXCEPT !.pc = "upsert", !.files = <<meta>>,
                                            !.idx = 1, !.file_content = meta.content]
                        ELSE NoSync]
          /\ blob_store = {blob_name(sha256(meta.content), meta.id)}
    /\ dropbox_chunks = [d \in ChunkDocs |-> 0]
    /\ queue = [m \in MsgIds |->
                   [state |-> "absent", body |-> PoisonBody, delivery_count |-> 0]]
    /\ running = [w \in Workers |-> FALSE]
    /\ pc = [w \in Workers |-> "start"]
    /\ msg = [w \in Workers |-> NoMsg]
    /\ chunks = [w \in Workers |-> <<>>]
    /\ err = [w \in Workers |-> NoError]
    /\ success = [w \in Workers |-> FALSE]
    /\ call = [w \in Workers |-> NoCall]
    /\ embed_raised = [w \in Workers |-> FALSE]
    /\ chunk_raised = [w \in Workers |-> FALSE]
    /\ slept = [w \in Workers |-> 0]
    /\ returned_at = [w \in Workers |-> "none"]
    /\ markdown_content = [w \in Workers |-> "unset"]
    /\ temp_file = [w \in Workers |-> FALSE]
    /\ attempt = [w \in Workers |-> 0]
    /\ delays = [w \in Workers |-> <<>>]
    /\ max_retries = MAX_RETRIES
    /\ retry_delay_base = RETRY_DELAY_BASE
    /\ faults = 0
    /\ history = [m \in MsgIds |-> NoHistory]
    /\ completions = [f \in RecordIds |-> NoCompletion]

\* the file_record of the call's file and the upsert of it
SyncUpsert(s) ==
    /\ sync[s].pc = "upsert"
    /\ LET meta == Candidate(s)
           sha256_hash == sha256(sync[s].file_content)
           rec == file_record(meta, sha256_hash, blob_name(sha256_hash, meta.id),
                              meta.content_hash)
       IN dropbox_files' = upsert(dropbox_files, rec)
    /\ sync' = [sync EXCEPT ![s].pc = "upserted"]
    /\ UNCHANGED <<queue, blob_store, workerVars>>

UpsertNext == \E s \in Syncs : SyncUpsert(s)

UpsertSpec == UpsertInit /\ [][UpsertNext]_vars

RecordsOf(id) == {f \in DOMAIN dropbox_files : dropbox_files[f].dropbox_file_id = id}

\* C36: when a call has returned that listed two supported files with identical bytes,
\* neither known to the store, and no external call failed, each file has a FileRecord,
\* the two records carry the same file_hash, and both blobs are in the blob store under
\* the same prefix dropbox/{hash}/.
C36_SameBytesSameHash ==
    \A s \in Syncs :
        ( /\ sync[s].pc = "done"
          /\ sync[s].response = "success"
          /\ Len(sync[s].files) = 2
          /\ \A i \in 1..2 : /\ sync[s].files[i].supported
                             /\ sync[s].files[i].id \notin sync[s].known
          /\ sync[s].files[1].content = sync[s].files[2].content
          /\ NoExternalFailure(s) )
        => LET a == sync[s].files[1]
               b == sync[s].files[2]
           IN /\ \E blob_a, blob_b \in blob_store :
                    /\ blob_a[3] = a.id
                    /\ blob_b[3] = b.id
                    /\ blob_a[2] = blob_b[2]
              /\ RecordsOf(a.id) # {}
              /\ RecordsOf(b.id) # {}
              /\ \A f \in RecordsOf(a.id), g \in RecordsOf(b.id) :
                    dropbox_files[f].file_hash = dropbox_files[g].file_hash

\* C40: every file of the listing adds one to exactly one of files_queued and
\* files_skipped, when the loop is done with it and at no other step; so a call that
\* returns a response returns files_queued + files_skipped = the number of files listed.
C40_CountersSumToListing ==
    [][\A s \in Syncs :
          LET before == sync[s].files_queued + sync[s].files_skipped
              after == sync'[s].files_queued + sync'[s].files_skipped
          IN /\ sync'[s].files_queued >= sync[s].files_queued
             /\ sync'[s].files_skipped >= sync[s].files_skipped
             /\ after = IF sync'[s].idx = sync[s].idx + 1 /\ sync[s].pc # "idle"
                        THEN before + 1 ELSE before
             /\ (sync'[s].pc = "done" /\ sync'[s].response = "success")
                => after = Len(sync'[s].files)]_vars

\* a call has returned for a listing of an unsupported file and a file that failed after
\* its upload: two files listed, none queued, two skipped
C40_Witness ==
    \E s \in Syncs :
        /\ sync[s].pc = "done"
        /\ sync[s].response = "success"
        /\ Len(sync[s].files) = 2
        /\ sync[s].log[1].decision = "unsupported"
        /\ sync[s].log[2].uploaded
        /\ sync[s].files_queued + sync[s].files_skipped = 2

----------------------------------------------------------------------------
(***************************************************************************)
(* Errors inside chunk_markdown.                                           *)
(***************************************************************************)

\* C39: an exception inside chunk_markdown does not leave it: the function returns the
\* empty list and process_dropbox_file takes the path of a document without chunks,
\* completing the FileRecord with chunk_count 0, storing nothing and returning True
\* (or, when that update raises, going to its failure handler); and run then calls
\* complete_message for the message.
C39_ChunkErrorTakesZeroChunkPath ==
    [][\A w \in Workers :
          /\ (pc[w] = "chunk" /\ chunk_raised'[w]) =>
                /\ chunks'[w] = <<>>
                /\ dropbox_chunks' = dropbox_chunks
                /\ \/ /\ pc'[w] = "settle"
                      /\ success'[w]
                      /\ returned_at'[w] = "no_chunks"
                      /\ dropbox_files'[Body(w).file_id].processing_status = "completed"
                      /\ dropbox_files'[Body(w).file_id].chunk_count = 0
                   \/ /\ pc'[w] = "mark_failed"
                      /\ err'[w] = "database"
                      /\ faults' = faults + 1
          /\ (pc[w] = "settle" /\ pc'[w] # "settle" /\ chunk_raised[w] /\ success[w]) =>
                /\ call'[w].name = "complete_message"
                /\ ~call'[w].raised => queue'[msg[w].id].state = "completed"]_vars

\* chunk_markdown met an exception and process_dropbox_file has returned True with the
\* FileRecord completed, chunk_count 0 and nothing stored
C39_Witness ==
    \E w \in Workers :
        /\ pc[w] = "settle"
        /\ chunk_raised[w]
        /\ success[w]
        /\ returned_at[w] = "no_chunks"
        /\ msg[w].delivery_count = 1
        /\ dropbox_files[Body(w).file_id].processing_status = "completed"
        /\ dropbox_files[Body(w).file_id].chunk_count = 0
        /\ CountChunks(Body(w).file_id) = 0

====
